---------------------------- MODULE Spec2Model ----------------------------
(***************************************************************************)
(* Model of the load tester (src/sync-app.js): runTest prompts for a URL,  *)
(* a request count and a time window, validates them and calls loadTest,   *)
(* which pushes totalRequests units of work (one axios GET each) through   *)
(* a throttle created by the async-throttle package and aggregates the     *)
(* outcomes.  JavaScript runs the callbacks one at a time, so every        *)
(* action below is one run-to-completion piece of the program.             *)
(***************************************************************************)
EXTENDS Integers, Sequences, FiniteSets, TLC

(***************************************************************************)
(* Bounds of the model.                                                    *)
(***************************************************************************)
MaxTicks == 1          \* the clock advances at most this many times
MaxRequests == 3       \* the largest request count that is entered

(***************************************************************************)
(* The clock: Date.now() in milliseconds; between two callbacks it either   *)
(* stands still or advances by one second.                                 *)
(***************************************************************************)
WindowMs == 1000       \* the "per second" of requestsPerSecond
TickMs == WindowMs

(***************************************************************************)
(* JavaScript numbers, as far as the program uses them: a finite rational  *)
(* n/d (d > 0), NaN, Infinity, -Infinity.                                  *)
(***************************************************************************)
Fin(n, d) == [k |-> "fin", n |-> n, d |-> d]
NaN == [k |-> "nan", n |-> 0, d |-> 1]
PosInf == [k |-> "inf", n |-> 0, d |-> 1]
NegInf == [k |-> "ninf", n |-> 0, d |-> 1]

\* Number.isInteger(x)
IsInteger(x) == x.k = "fin" /\ x.n % x.d = 0

\* Number.isFinite(x)
IsFinite(x) == x.k = "fin"

\* x <= 0 (false for NaN)
LeqZero(x) == (x.k = "fin" /\ x.n <= 0) \/ x.k = "ninf"

\* a / b for a finite or NaN, b any number
Divide(a, b) ==
  IF a.k = "nan" \/ b.k = "nan" THEN NaN
  ELSE IF b.k \in {"inf", "ninf"} THEN Fin(0, 1)
  ELSE IF b.n = 0
       THEN IF a.n > 0 THEN PosInf ELSE IF a.n < 0 THEN NegInf ELSE NaN
  ELSE IF b.n > 0 THEN Fin(a.n * b.d, a.d * b.n)
  ELSE Fin(-(a.n * b.d), a.d * (-b.n))

\* Math.floor in the place of Math.ceil
CeilAsFloor(x) == IF x.k = "fin" THEN Fin(x.n \div x.d, 1) ELSE x

\* Math.ceil(x)
Ceil(x) == IF x.k = "fin" THEN Fin(-((-x.n) \div x.d), 1) ELSE x

\* cur < max for an integer cur (false when max is NaN)
LessThan(cur, max) ==
  IF max.k = "fin" THEN cur * max.d < max.n ELSE max.k = "inf"

\* ToLength of the length property given to Array.from
ArrayLength(x) == IF x.k = "fin" /\ x.n > 0 THEN x.n \div x.d ELSE 0

\* index === totalRequests in the place of index === totalRequests - 1
IsLastIndexOffByOne(index, total) == total.k = "fin" /\ total.n = index * total.d

\* index === totalRequests - 1
IsLastIndex(index, total) == total.k = "fin" /\ total.n = (index + 1) * total.d

(***************************************************************************)
(* Strings are sequences of one-character strings.                         *)
(***************************************************************************)
Digits == {"0", "1", "2", "3", "4", "5", "6", "7", "8", "9"}

DigitVal(c) ==
  CASE c = "0" -> 0 [] c = "1" -> 1 [] c = "2" -> 2 [] c = "3" -> 3
    [] c = "4" -> 4 [] c = "5" -> 5 [] c = "6" -> 6 [] c = "7" -> 7
    [] c = "8" -> 8 [] c = "9" -> 9

RECURSIVE TrimStart(_)
TrimStart(s) == IF s # <<>> /\ Head(s) = " " THEN TrimStart(Tail(s)) ELSE s

RECURSIVE TrimEnd(_)
TrimEnd(s) ==
  IF s # <<>> /\ s[Len(s)] = " " THEN TrimEnd(SubSeq(s, 1, Len(s) - 1)) ELSE s

\* answer.trim() in prompt
Trim(s) == TrimEnd(TrimStart(s))

\* the longest prefix of s made of digits
RECURSIVE DigitPrefix(_)
DigitPrefix(s) ==
  IF s # <<>> /\ Head(s) \in Digits
  THEN <<Head(s)>> \o DigitPrefix(Tail(s)) ELSE <<>>

RECURSIVE DigitsValue(_)
DigitsValue(ds) ==
  IF ds = <<>> THEN 0
  ELSE 10 * DigitsValue(SubSeq(ds, 1, Len(ds) - 1)) + DigitVal(ds[Len(ds)])

RECURSIVE Pow10(_)
Pow10(e) == IF e = 0 THEN 1 ELSE 10 * Pow10(e - 1)

Unsigned(s) == IF s # <<>> /\ Head(s) \in {"+", "-"} THEN Tail(s) ELSE s
Sign(s) == IF s # <<>> /\ Head(s) = "-" THEN -1 ELSE 1

\* parseInt(s, 10): optional sign, then the leading digits; NaN without a digit
ParseInt(s) ==
  LET t == TrimStart(s)
      ds == DigitPrefix(Unsigned(t))
  IN  IF ds = <<>> THEN NaN ELSE Fin(Sign(t) * DigitsValue(ds), 1)

\* parseFloat(s): optional sign, then Infinity or digits with an optional
\* fraction (inputs with an exponent part are not among the modelled answers)
ParseFloat(s) ==
  LET t == TrimStart(s)
      u == Unsigned(t)
      ip == DigitPrefix(u)
      afterInt == SubSeq(u, Len(ip) + 1, Len(u))
      fp == IF afterInt # <<>> /\ Head(afterInt) = "."
            THEN DigitPrefix(Tail(afterInt)) ELSE <<>>
      inf == <<"I", "n", "f", "i", "n", "i", "t", "y">>
  IN  IF Len(u) >= Len(inf) /\ SubSeq(u, 1, Len(inf)) = inf
      THEN IF Sign(t) = 1 THEN PosInf ELSE NegInf
      ELSE IF ip = <<>> /\ fp = <<>> THEN NaN
      ELSE Fin(Sign(t) * (DigitsValue(ip) * Pow10(Len(fp)) + DigitsValue(fp)),
               Pow10(Len(fp)))

\* url.match(/^https?:\/\/.+/): "http", an optional "s", "://", one more character
SchemeRest(s, p) ==
  /\ Len(s) >= p + 3
  /\ SubSeq(s, p, p + 2) = <<":", "/", "/">>
  /\ s[p + 3] # "\n"

UrlMatches(s) ==
  /\ Len(s) >= 4
  /\ SubSeq(s, 1, 4) = <<"h", "t", "t", "p">>
  /\ \/ (Len(s) >= 5 /\ s[5] = "s" /\ SchemeRest(s, 6))
     \/ SchemeRest(s, 5)

\* validateInputs without the test totalRequests <= 0
validateInputsNoSignCheck(u, total, window) ==
  IF u = <<>> \/ ~UrlMatches(u) THEN "Invalid or missing URL"
  ELSE IF ~IsInteger(total) THEN "Invalid totalRequests"
  ELSE IF ~IsFinite(window) \/ LeqZero(window) THEN "Invalid timeWindowSeconds"
  ELSE ""

\* validateInputs without the test of the URL against the pattern
validateInputsNoUrlPattern(u, total, window) ==
  IF u = <<>> THEN "Invalid or missing URL"
  ELSE IF ~IsInteger(total) \/ LeqZero(total) THEN "Invalid totalRequests"
  ELSE IF ~IsFinite(window) \/ LeqZero(window) THEN "Invalid timeWindowSeconds"
  ELSE ""

\* validateInputs: the message of the error it throws, "" when it returns
validateInputs(u, total, window) ==
  IF u = <<>> \/ ~UrlMatches(u) THEN "Invalid or missing URL"
  ELSE IF ~IsInteger(total) \/ LeqZero(total) THEN "Invalid totalRequests"
  ELSE IF ~IsFinite(window) \/ LeqZero(window) THEN "Invalid timeWindowSeconds"
  ELSE ""


(***************************************************************************)
(* The HTTP client (axios.get).  A response has a status, an optional      *)
(* content-length header and a body; statuses are written as their text so *)
(* that they compare with the 'N/A' of an outcome without a response.      *)
(* With axios' default validateStatus a 2xx response is returned and any   *)
(* other response is raised as an error that carries the response.         *)
(***************************************************************************)
NoResponse == [status |-> "", contentLength |-> <<>>, data |-> <<>>]

Returned(resp) ==
  [raised |-> FALSE, hasResponse |-> TRUE, response |-> resp, message |-> ""]
RaisedWith(resp, msg) ==
  [raised |-> TRUE, hasResponse |-> TRUE, response |-> resp, message |-> msg]
RaisedWithout(msg) ==
  [raised |-> TRUE, hasResponse |-> FALSE, response |-> NoResponse, message |-> msg]

HttpOutcomes ==
  { Returned([status |-> "200", contentLength |-> <<>>, data |-> <<"o", "k">>]),
    RaisedWith([status |-> "500", contentLength |-> <<"1">>, data |-> <<"x">>],
               "Request failed with status code 500"),
    RaisedWithout("timeout of 10000ms exceeded") }

\* getResponseSize: the content-length header when present, else the byte
\* length of JSON.stringify(data) (the text between two quotes), else 0
getResponseSize(response) ==
  IF response.contentLength # <<>> THEN ParseInt(response.contentLength).n
  ELSE IF response.data # <<>> THEN Len(response.data) + 2
  ELSE 0

(***************************************************************************)
(* The answers typed at the prompts.                                       *)
(***************************************************************************)
DigitChar(n) == CHOOSE c \in Digits : DigitVal(c) = n

RECURSIVE ToChars(_)
ToChars(n) ==
  IF n < 10 THEN <<DigitChar(n)>> ELSE ToChars(n \div 10) \o <<DigitChar(n % 10)>>

UrlAnswers ==
  { <<>>,
    <<" ", "h", "t", "t", "p", "s", ":", "/", "/", "a">>,
    <<"h", "t", "t", "p", ":", "/", "/">>,
    <<"f", "t", "p", ":", "/", "/", "x">> }

TotalAnswers ==
  { <<"0">>, <<"-", "1">>, <<"a", "b", "c">>, <<"2", ".", "5">> }
    \cup { ToChars(n) : n \in 1..MaxRequests }

WindowAnswers ==
  { <<"0">>, <<"-", "1">>, <<"a", "b", "c">>,
    <<"I", "n", "f", "i", "n", "i", "t", "y">>,
    <<"0", ".", "5">>, <<"2">>, <<"3", " ">> }

\* the arguments of a call of loadTest that bypasses runTest
DirectTotals == { Fin(0, 1), Fin(-1, 1), Fin(2, 1) }
DirectWindows == { Fin(0, 1), Fin(-1, 1), Fin(2, 1) }
DirectUrl == <<"h", "t", "t", "p", ":", "/", "/", "a">>

(***************************************************************************)
(* State.                                                                  *)
(***************************************************************************)
VARIABLES
  pc,                 \* where the program is: "idle", "rejected" (runTest
                      \* caught a validation error), "awaiting" (loadTest is
                      \* at await Promise.all), "returned", "threw",
                      \* "reported" (runTest has printed the summary)
  entry,              \* who called loadTest: "none", "runTest", "direct"
  url, totalRequests, timeWindowSeconds,    \* the arguments
  errorMessage,       \* the message runTest's catch prints, "" when none
  requestsPerSecond,  \* the rate given to throttle()
  cur, queue,         \* async-throttle: running count and waiting handleFn's
  results,            \* the results object of loadTest
  startTime,          \* loadTest's startTime
  now,                \* Date.now()
  ticks,              \* how many times the clock has advanced
  unit,               \* per index: "queued", "inflight", "finished" (fn is
                      \* done), "failed" (fn threw), "released"
  requestStartTime,   \* per index: <<>> or <<the time fn began>>
  http,               \* per index: how axios.get ended
  promise,            \* per index: the promise returned by throttleRequests
  gets,               \* per index: how many GETs were issued
  loadTestCalls,      \* how many times loadTest was called
  report              \* the figures runTest prints, <<>> before it prints

vars == <<pc, entry, url, totalRequests, timeWindowSeconds, errorMessage,
          requestsPerSecond, cur, queue, results, startTime, now, ticks,
          unit, requestStartTime, http, promise, gets, loadTestCalls,
          report>>

Null == <<>>

NoResults ==
  [ totalRequests |-> NaN, timeWindowSeconds |-> NaN,
    successfulRequests |-> 0, failedRequests |-> 0, responses |-> <<>>,
    totalTimeTakenMs |-> 0, firstQueryStartTime |-> Null,
    lastQueryStartTime |-> Null, totalResponseSizeBytes |-> 0 ]

Pending == [raised |-> FALSE, hasResponse |-> FALSE, response |-> NoResponse,
            message |-> "pending"]

Init ==
  /\ pc = "idle"
  /\ entry = "none"
  /\ url = <<>>
  /\ totalRequests = NaN
  /\ timeWindowSeconds = NaN
  /\ errorMessage = ""
  /\ requestsPerSecond = NaN
  /\ cur = 0
  /\ queue = <<>>
  /\ results = NoResults
  /\ startTime = 0
  /\ now = 0
  /\ ticks = 0
  /\ unit = <<>>
  /\ requestStartTime = <<>>
  /\ http = <<>>
  /\ promise = <<>>
  /\ gets = <<>>
  /\ loadTestCalls = 0
  /\ report = <<>>

(***************************************************************************)
(* loadTest.  The pieces that run inside one callback are operators on a   *)
(* record m of the fields they touch (cur, queue, results, unit,           *)
(* requestStartTime, gets); the actions store the record they return.      *)
(***************************************************************************)

\* BeginUnit with the two start-time fields exchanged
BeginUnitSwapped(m, index, total, t) ==
  LET r1 == IF index = 0
            THEN [m.results EXCEPT !.lastQueryStartTime = <<t>>]
            ELSE m.results
      r2 == IF IsLastIndex(index, total)
            THEN [r1 EXCEPT !.firstQueryStartTime = <<t>>]
            ELSE r1
  IN  [m EXCEPT !.results = r2,
                !.requestStartTime[index] = <<t>>,
                !.gets[index] = @ + 1,
                !.unit[index] = "inflight"]

\* The unit of work up to its await: the start time, the first/last query
\* start times, the fresh responseData, and the call of axios.get
BeginUnit(m, index, total, t) ==
  LET r1 == IF index = 0
            THEN [m.results EXCEPT !.firstQueryStartTime = <<t>>]
            ELSE m.results
      r2 == IF IsLastIndex(index, total)
            THEN [r1 EXCEPT !.lastQueryStartTime = <<t>>]
            ELSE r1
  IN  [m EXCEPT !.results = r2,
                !.requestStartTime[index] = <<t>>,
                !.gets[index] = @ + 1,
                !.unit[index] = "inflight"]

\* async-throttle's handleFn: run fn when cur < max, else wait in the queue
handleFn(m, index, max, total, t) ==
  IF LessThan(m.cur, max)
  THEN BeginUnit([m EXCEPT !.cur = @ + 1], index, total, t)
  ELSE [m EXCEPT !.queue = Append(@, index)]

\* Array.from({ length: totalRequests }, ...): one throttleRequests call per
\* index, in index order
RECURSIVE SubmitAll(_, _, _, _, _, _)
SubmitAll(m, index, length, max, total, t) ==
  IF index >= length THEN m
  ELSE SubmitAll(handleFn(m, index, max, total, t), index + 1, length, max, total, t)

\* loadTest from its first line to await Promise.all(requestPromises)
LoadTestCall(u, total, window) ==
  LET rate == Ceil(Divide(total, window))
      length == ArrayLength(total)
      idx == 0 .. (length - 1)
      m0 == [ cur |-> 0, queue |-> <<>>,
              results |-> [NoResults EXCEPT !.totalRequests = total,
                                            !.timeWindowSeconds = window],
              unit |-> [i \in idx |-> "queued"],
              requestStartTime |-> [i \in idx |-> Null],
              gets |-> [i \in idx |-> 0] ]
      m == SubmitAll(m0, 0, length, rate, total, now)
  IN  /\ url' = u
      /\ totalRequests' = total
      /\ timeWindowSeconds' = window
      /\ requestsPerSecond' = rate
      /\ startTime' = now
      /\ cur' = m.cur
      /\ queue' = m.queue
      /\ results' = m.results
      /\ unit' = m.unit
      /\ requestStartTime' = m.requestStartTime
      /\ gets' = m.gets
      /\ http' = [i \in idx |-> Pending]
      /\ promise' = [i \in idx |-> "pending"]
      /\ loadTestCalls' = loadTestCalls + 1
      /\ pc' = "awaiting"

\* runTest: the three prompts, parseInt and parseFloat, validateInputs, and
\* either the catch block or the call of loadTest
RunTest(urlAnswer, totalAnswer, windowAnswer) ==
  /\ pc = "idle"
  /\ LET u == Trim(urlAnswer)
         total == ParseInt(Trim(totalAnswer))
         window == ParseFloat(Trim(windowAnswer))
         msg == validateInputs(u, total, window)
     IN  IF msg # ""
         THEN /\ pc' = "rejected"
              /\ entry' = "runTest"
              /\ errorMessage' = msg
              /\ url' = u
              /\ totalRequests' = total
              /\ timeWindowSeconds' = window
              /\ UNCHANGED <<requestsPerSecond, cur, queue, results, startTime,
                             unit, requestStartTime, http, promise, gets,
                             loadTestCalls>>
         ELSE /\ entry' = "runTest"
              /\ errorMessage' = ""
              /\ LoadTestCall(u, total, window)
  /\ UNCHANGED <<now, ticks, report>>

\* loadTest called with arguments that did not go through validateInputs
LoadTestDirect(u, total, window) ==
  /\ pc = "idle"
  /\ entry' = "direct"
  /\ errorMessage' = ""
  /\ LoadTestCall(u, total, window)
  /\ UNCHANGED <<now, ticks, report>>

\* ResponseData with requestNumber: index
ResponseDataZeroBased(index, outcome, started, t) ==
  IF ~outcome.raised
  THEN [ requestNumber |-> index,
         timeMs |-> t - started,
         status |-> outcome.response.status,
         success |-> TRUE,
         sizeBytes |-> getResponseSize(outcome.response),
         error |-> Null ]
  ELSE [ requestNumber |-> index,
         timeMs |-> t - started,
         status |-> IF outcome.hasResponse THEN outcome.response.status ELSE "N/A",
         success |-> FALSE,
         sizeBytes |-> IF outcome.hasResponse
                       THEN getResponseSize(outcome.response) ELSE 0,
         error |-> <<outcome.message>> ]

\* ResponseData with a catch block that does not look at error.response
ResponseDataNoErrorResponse(index, outcome, started, t) ==
  IF ~outcome.raised
  THEN [ requestNumber |-> index + 1,
         timeMs |-> t - started,
         status |-> outcome.response.status,
         success |-> TRUE,
         sizeBytes |-> getResponseSize(outcome.response),
         error |-> Null ]
  ELSE [ requestNumber |-> index + 1,
         timeMs |-> t - started,
         status |-> "N/A",
         success |-> FALSE,
         sizeBytes |-> 0,
         error |-> <<outcome.message>> ]

\* responseData after the try block (lines 99-102) or the catch block
\* (lines 106-109)
ResponseData(index, outcome, started, t) ==
  IF ~outcome.raised
  THEN [ requestNumber |-> index + 1,
         timeMs |-> t - started,
         status |-> outcome.response.status,
         success |-> TRUE,
         sizeBytes |-> getResponseSize(outcome.response),
         error |-> Null ]
  ELSE [ requestNumber |-> index + 1,
         timeMs |-> t - started,
         status |-> IF outcome.hasResponse THEN outcome.response.status ELSE "N/A",
         success |-> FALSE,
         sizeBytes |-> IF outcome.hasResponse
                       THEN getResponseSize(outcome.response) ELSE 0,
         error |-> <<outcome.message>> ]

\* Record with the push of responseData inside the try block only
RecordPushInTry(res, outcome, responseData) ==
  IF ~outcome.raised
  THEN [res EXCEPT !.successfulRequests = @ + 1,
                   !.totalResponseSizeBytes = @ + responseData.sizeBytes,
                   !.responses = Append(@, responseData)]
  ELSE [res EXCEPT !.failedRequests = @ + 1,
                   !.totalResponseSizeBytes = @ + responseData.sizeBytes]

\* Record with the catch block incrementing successfulRequests
RecordWrongCounter(res, outcome, responseData) ==
  [res EXCEPT !.successfulRequests = @ + 1,
              !.totalResponseSizeBytes = @ + responseData.sizeBytes,
              !.responses = Append(@, responseData)]

\* Record with the catch block not adding sizeBytes to the total
RecordSizeInTryOnly(res, outcome, responseData) ==
  IF ~outcome.raised
  THEN [res EXCEPT !.successfulRequests = @ + 1,
                   !.totalResponseSizeBytes = @ + responseData.sizeBytes,
                   !.responses = Append(@, responseData)]
  ELSE [res EXCEPT !.failedRequests = @ + 1,
                   !.responses = Append(@, responseData)]

\* Record with responseData put at the front of results.responses
RecordUnshift(res, outcome, responseData) ==
  LET counted == IF ~outcome.raised
                 THEN [res EXCEPT !.successfulRequests = @ + 1]
                 ELSE [res EXCEPT !.failedRequests = @ + 1]
  IN  [counted EXCEPT !.totalResponseSizeBytes = @ + responseData.sizeBytes,
                      !.responses = <<responseData>> \o @]

\* Record with responseData pushed in the try / catch blocks and once more
\* after them
RecordPushTwice(res, outcome, responseData) ==
  LET counted == IF ~outcome.raised
                 THEN [res EXCEPT !.successfulRequests = @ + 1]
                 ELSE [res EXCEPT !.failedRequests = @ + 1]
  IN  [counted EXCEPT !.totalResponseSizeBytes = @ + responseData.sizeBytes,
                      !.responses = Append(Append(@, responseData), responseData)]

\* the results object after the unit has counted and stored its responseData
Record(res, outcome, responseData) ==
  LET counted == IF ~outcome.raised
                 THEN [res EXCEPT !.successfulRequests = @ + 1]
                 ELSE [res EXCEPT !.failedRequests = @ + 1]
  IN  [counted EXCEPT !.totalResponseSizeBytes = @ + responseData.sizeBytes,
                      !.responses = Append(@, responseData)]

\* fn with a catch block that throws the error again
FnResultRethrows(outcome) == IF outcome.raised THEN "rejected" ELSE "fulfilled"

\* how fn's promise ends: the try/catch handles every error of axios.get
FnResult(outcome) == "fulfilled"

\* Complete with a catch block that issues the GET a second time
CompleteWithRetry(index, outcome) ==
  /\ index \in DOMAIN unit
  /\ unit[index] = "inflight"
  /\ IF outcome.raised /\ gets[index] < 2
     THEN /\ gets' = [gets EXCEPT ![index] = @ + 1]
          /\ UNCHANGED <<http, results, unit>>
     ELSE /\ http' = [http EXCEPT ![index] = outcome]
          /\ results' = Record(results, outcome,
                ResponseData(index, outcome, requestStartTime[index][1], now))
          /\ unit' = [unit EXCEPT ![index] = "finished"]
          /\ UNCHANGED gets
  /\ UNCHANGED <<pc, entry, url, totalRequests, timeWindowSeconds, errorMessage,
                 requestsPerSecond, cur, queue, startTime, now, ticks,
                 requestStartTime, promise, loadTestCalls, report>>

\* axios.get(url, { timeout: 10000 }) ends with outcome and the unit of
\* work resumes after its await and runs to the end of fn
Complete(index, outcome) ==
  /\ index \in DOMAIN unit
  /\ unit[index] = "inflight"
  /\ http' = [http EXCEPT ![index] = outcome]
  /\ LET responseData ==
           ResponseData(index, outcome, requestStartTime[index][1], now)
     IN  results' = Record(results, outcome, responseData)
  /\ unit' = [unit EXCEPT ![index] =
                IF FnResult(outcome) = "fulfilled" THEN "finished" ELSE "failed"]
  /\ UNCHANGED <<pc, entry, url, totalRequests, timeWindowSeconds, errorMessage,
                 requestsPerSecond, cur, queue, startTime, now, ticks,
                 requestStartTime, promise, gets, loadTestCalls, report>>

\* ThrottleDone that gives the slot back without running the head of the queue
ThrottleDoneNoShift(index) ==
  /\ index \in DOMAIN unit
  /\ unit[index] \in {"finished", "failed"}
  /\ promise' = [promise EXCEPT ![index] =
                   IF unit[index] = "finished" THEN "fulfilled" ELSE "rejected"]
  /\ cur' = cur - 1
  /\ unit' = [unit EXCEPT ![index] = "released"]
  /\ UNCHANGED <<pc, entry, url, totalRequests, timeWindowSeconds, errorMessage,
                 requestsPerSecond, queue, results, startTime, now, ticks,
                 requestStartTime, http, gets, loadTestCalls, report>>

\* ThrottleDone that runs the last of the queue (queue.pop) instead of its head
ThrottleDonePop(index) ==
  /\ index \in DOMAIN unit
  /\ unit[index] \in {"finished", "failed"}
  /\ promise' = [promise EXCEPT ![index] =
                   IF unit[index] = "finished" THEN "fulfilled" ELSE "rejected"]
  /\ LET m0 == [ cur |-> cur - 1, queue |-> queue, results |-> results,
                 unit |-> [unit EXCEPT ![index] = "released"],
                 requestStartTime |-> requestStartTime, gets |-> gets ]
         m == IF queue # <<>>
              THEN handleFn([m0 EXCEPT !.queue = SubSeq(@, 1, Len(@) - 1)],
                            queue[Len(queue)],
                            requestsPerSecond, totalRequests, now)
              ELSE m0
     IN  /\ cur' = m.cur
         /\ queue' = m.queue
         /\ results' = m.results
         /\ unit' = m.unit
         /\ requestStartTime' = m.requestStartTime
         /\ gets' = m.gets
  /\ UNCHANGED <<pc, entry, url, totalRequests, timeWindowSeconds, errorMessage,
                 requestsPerSecond, startTime, now, ticks, http, loadTestCalls,
                 report>>

\* async-throttle's callback on fn's promise: settle the promise given to
\* the caller, give the slot back, and run the head of the queue
ThrottleDone(index) ==
  /\ index \in DOMAIN unit
  /\ unit[index] \in {"finished", "failed"}
  /\ promise' = [promise EXCEPT ![index] =
                   IF unit[index] = "finished" THEN "fulfilled" ELSE "rejected"]
  /\ LET m0 == [ cur |-> cur - 1, queue |-> queue, results |-> results,
                 unit |-> [unit EXCEPT ![index] = "released"],
                 requestStartTime |-> requestStartTime, gets |-> gets ]
         m == IF queue # <<>>
              THEN handleFn([m0 EXCEPT !.queue = Tail(@)], Head(queue),
                            requestsPerSecond, totalRequests, now)
              ELSE m0
     IN  /\ cur' = m.cur
         /\ queue' = m.queue
         /\ results' = m.results
         /\ unit' = m.unit
         /\ requestStartTime' = m.requestStartTime
         /\ gets' = m.gets
  /\ UNCHANGED <<pc, entry, url, totalRequests, timeWindowSeconds, errorMessage,
                 requestsPerSecond, startTime, now, ticks, http, loadTestCalls, report>>

\* LoadTestReturn without the await of Promise.all
LoadTestReturnNoAwait ==
  /\ pc = "awaiting"
  /\ pc' = "returned"
  /\ results' = [results EXCEPT !.totalTimeTakenMs = now - startTime]
  /\ UNCHANGED <<entry, url, totalRequests, timeWindowSeconds, errorMessage,
                 requestsPerSecond, cur, queue, startTime, now, ticks,
                 unit, requestStartTime, http, promise, gets, loadTestCalls,
                 report>>

\* await Promise.all(requestPromises) ends: loadTest sets totalTimeTakenMs
\* and returns, or throws when one of the promises was rejected
LoadTestReturn ==
  /\ pc = "awaiting"
  /\ IF \E i \in DOMAIN promise : promise[i] = "rejected"
     THEN /\ pc' = "threw"
          /\ UNCHANGED results
     ELSE /\ \A i \in DOMAIN promise : promise[i] = "fulfilled"
          /\ pc' = "returned"
          /\ results' = [results EXCEPT !.totalTimeTakenMs = now - startTime]
  /\ UNCHANGED <<entry, url, totalRequests, timeWindowSeconds, errorMessage,
                 requestsPerSecond, cur, queue, startTime, now, ticks,
                 unit, requestStartTime, http, promise, gets, loadTestCalls, report>>

\* time passes while loadTest waits
Tick ==
  /\ pc = "awaiting"
  /\ ticks < MaxTicks
  /\ now' = now + TickMs
  /\ ticks' = ticks + 1
  /\ UNCHANGED <<pc, entry, url, totalRequests, timeWindowSeconds, errorMessage,
                 requestsPerSecond, cur, queue, results, startTime,
                 unit, requestStartTime, http, promise, gets, loadTestCalls, report>>

\* Number.prototype.toFixed(2) of num / den >= 0, in hundredths: the nearest
\* multiple of 0.01, the larger one when two are as near
ToFixed2(num, den) == (2 * 100 * num + den) \div (2 * den)

RECURSIVE SumTimes(_)
SumTimes(rs) == IF rs = <<>> THEN 0 ELSE Head(rs).timeMs + SumTimes(Tail(rs))

\* Metrics with the error rate taken from successfulRequests
MetricsRateOfSuccesses(result) ==
  LET sizeMB == ToFixed2(result.totalResponseSizeBytes, 1024 * 1024)
  IN  [ errorRate |->
          ToFixed2(100 * result.successfulRequests, ArrayLength(result.totalRequests)),
        averageResponseTimeMs |->
          IF Len(result.responses) > 0
          THEN ToFixed2(SumTimes(result.responses), Len(result.responses))
          ELSE 0,
        totalResponseSizeMB |-> sizeMB,
        mbps |-> IF result.totalTimeTakenMs > 0
                 THEN ToFixed2(sizeMB * 1000, 100 * result.totalTimeTakenMs)
                 ELSE 0 ]

\* the metrics of runTest (lines 174-180), in hundredths
Metrics(result) ==
  LET sizeMB == ToFixed2(result.totalResponseSizeBytes, 1024 * 1024)
  IN  [ errorRate |->
          ToFixed2(100 * result.failedRequests, ArrayLength(result.totalRequests)),
        averageResponseTimeMs |->
          IF Len(result.responses) > 0
          THEN ToFixed2(SumTimes(result.responses), Len(result.responses))
          ELSE 0,
        totalResponseSizeMB |-> sizeMB,
        mbps |-> IF result.totalTimeTakenMs > 0
                 THEN ToFixed2(sizeMB * 1000, 100 * result.totalTimeTakenMs)
                 ELSE 0 ]

\* runTest after loadTest has returned: the table, the metrics, the summary
Report ==
  /\ pc = "returned"
  /\ entry = "runTest"
  /\ report' = <<Metrics(results)>>
  /\ pc' = "reported"
  /\ UNCHANGED <<entry, url, totalRequests, timeWindowSeconds, errorMessage,
                 requestsPerSecond, cur, queue, results, startTime, now, ticks,
                 unit, requestStartTime, http, promise, gets, loadTestCalls>>

Indexes == 0 .. MaxRequests

Next ==
  \/ \E u \in UrlAnswers, t \in TotalAnswers, w \in WindowAnswers : RunTest(u, t, w)
  \/ \E t \in DirectTotals, w \in DirectWindows : LoadTestDirect(DirectUrl, t, w)
  \/ \E i \in Indexes, o \in HttpOutcomes : Complete(i, o)
  \/ \E i \in Indexes : ThrottleDone(i)
  \/ LoadTestReturn
  \/ Report
  \/ Tick

Spec == Init /\ [][Next]_vars

(***************************************************************************)
(* Vocabulary of the properties.                                           *)
(***************************************************************************)
RECURSIVE SumSizes(_)
SumSizes(rs) == IF rs = <<>> THEN 0 ELSE Head(rs).sizeBytes + SumSizes(Tail(rs))

\* the arguments are the valid ones: an http(s) URL, a positive integer count,
\* a positive finite window
ValidArgs ==
  /\ UrlMatches(url)
  /\ IsInteger(totalRequests) /\ totalRequests.n > 0
  /\ IsFinite(timeWindowSeconds) /\ timeWindowSeconds.n > 0

Total == totalRequests.n \div totalRequests.d

Started(i) == requestStartTime[i] # Null
StartOf(i) == requestStartTime[i][1]

\* the units whose execution began at a time t with from <= t < to
AdmittedIn(from, to) ==
  { j \in DOMAIN unit : Started(j) /\ from <= StartOf(j) /\ StartOf(j) < to }

InFlight == { j \in DOMAIN unit : unit[j] = "inflight" }
Ended == { j \in DOMAIN unit : unit[j] \in {"finished", "failed", "released"} }

OutcomesOf(i) ==
  { p \in DOMAIN results.responses : results.responses[p].requestNumber = i + 1 }

(***************************************************************************)
(* C1: for valid arguments, when loadTest has returned, the number of      *)
(* recorded outcomes is totalRequests and successfulRequests +             *)
(* failedRequests is totalRequests.                                        *)
(***************************************************************************)
C1_AllRecorded ==
  (pc = "returned" /\ ValidArgs) =>
     /\ Len(results.responses) = Total
     /\ results.successfulRequests + results.failedRequests = Total

C1_Witness ==
  /\ pc = "returned" /\ ValidArgs
  /\ Total = 3
  /\ results.successfulRequests >= 1
  /\ results.failedRequests >= 1
  /\ results.responses[1].requestNumber # 1

(***************************************************************************)
(* C2: with rate R = ceil(totalRequests / timeWindowSeconds), no more than *)
(* R units of work begin execution within any rolling 1-second window.     *)
(* Stated for valid arguments: the units that begin within one second      *)
(* from the start of any unit (that unit included) number at most R.       *)
(***************************************************************************)
C2_RateBound ==
  (pc \in {"awaiting", "returned"} /\ ValidArgs) =>
     \A i \in DOMAIN unit :
        Started(i) =>
           Cardinality(AdmittedIn(StartOf(i), StartOf(i) + WindowMs))
              <= requestsPerSecond.n

(***************************************************************************)
(* C3: admission of a queued unit does not wait for the units admitted     *)
(* before it to complete.  Stated for valid arguments: a unit is in the    *)
(* queue only while the last second's R admissions are used up, never      *)
(* merely because R earlier units are still in flight.                     *)
(***************************************************************************)
C3_AdmissionNotHeldByInFlight ==
  (pc = "awaiting" /\ ValidArgs) =>
     \A i \in DOMAIN unit :
        unit[i] = "queued" =>
           Cardinality(AdmittedIn(now - WindowMs + 1, now + 1))
              >= requestsPerSecond.n

(***************************************************************************)
(* What the code does instead of C2 and C3: the throttle bounds the number *)
(* of units in flight by R, and a unit waits in the queue exactly while R  *)
(* units hold a slot.                                                      *)
(***************************************************************************)
ThrottleBoundsInFlight ==
  (pc = "awaiting" /\ ValidArgs) =>
     /\ Cardinality(InFlight) <= requestsPerSecond.n
     /\ cur <= requestsPerSecond.n
     /\ (queue # <<>> => cur = requestsPerSecond.n)

(***************************************************************************)
(* C4 as claimed: loadTest itself rejects totalRequests <= 0 and           *)
(* timeWindowSeconds <= 0: once called with such arguments it returns no   *)
(* result, records no outcome and issues no GET.                           *)
(***************************************************************************)
C4_LoadTestRejects ==
  (loadTestCalls > 0 /\ (LeqZero(totalRequests) \/ LeqZero(timeWindowSeconds))) =>
     /\ pc # "returned"
     /\ results.responses = <<>>
     /\ \A i \in DOMAIN gets : gets[i] = 0

(***************************************************************************)
(* C4 as amended: loadTest does not validate; totalRequests <= 0 and       *)
(* timeWindowSeconds <= 0 are rejected by validateInputs in runTest before *)
(* loadTest is called, so that through runTest no rate is computed, no     *)
(* unit is submitted, no GET is issued and no outcome is produced; called  *)
(* directly with totalRequests <= 0, loadTest submits no unit, issues no   *)
(* GET and records no outcome.                                             *)
(***************************************************************************)
C4_RejectedByRunTest ==
  (pc # "idle" /\ (LeqZero(totalRequests) \/ LeqZero(timeWindowSeconds))) =>
     IF entry = "runTest"
     THEN /\ pc = "rejected"
          /\ errorMessage # ""
          /\ loadTestCalls = 0
          /\ requestsPerSecond = NaN
          /\ unit = <<>> /\ gets = <<>>
          /\ results.responses = <<>>
     ELSE LeqZero(totalRequests) =>
             /\ unit = <<>> /\ gets = <<>>
             /\ results.responses = <<>>

C4_Witness ==
  /\ entry = "runTest"
  /\ pc = "rejected"
  /\ LeqZero(timeWindowSeconds)
  /\ UrlMatches(url) /\ IsInteger(totalRequests) /\ totalRequests.n > 0

(***************************************************************************)
(* C5: no counter update is lost: at every moment successfulRequests is    *)
(* the number of calls that have returned and failedRequests the number    *)
(* that have raised, so at the end of a run they count all the calls by    *)
(* how they ended, and a run whose calls all return reports                *)
(* totalRequests successes and 0 failures.                                 *)
(***************************************************************************)
C5_NoLostUpdate ==
  /\ results.successfulRequests
        = Cardinality({ i \in Ended : ~http[i].raised })
  /\ results.failedRequests
        = Cardinality({ i \in Ended : http[i].raised })
  /\ (pc = "returned" /\ ValidArgs) =>
        /\ Ended = 0 .. (Total - 1)
        /\ (\A i \in Ended : ~http[i].raised) =>
              /\ results.successfulRequests = Total
              /\ results.failedRequests = 0

C5_Witness ==
  /\ pc = "returned" /\ ValidArgs
  /\ Total = 3
  /\ requestsPerSecond.n = 2
  /\ \A i \in DOMAIN http : ~http[i].raised
  /\ results.responses[1].requestNumber = 2

(***************************************************************************)
(* C6: for valid arguments, if every HTTP call eventually ends, loadTest   *)
(* eventually returns; it returns only when the promise of every unit is   *)
(* fulfilled, so every unit that waited in the queue has been admitted and *)
(* has completed by then.                                                  *)
(***************************************************************************)
C6_Terminates ==
  (pc = "awaiting" /\ ValidArgs) ~>
     (pc = "returned" /\ \A i \in DOMAIN unit : unit[i] = "released" /\ Started(i))

C6_Witness ==
  /\ pc = "returned" /\ ValidArgs
  /\ \E i \in DOMAIN unit : StartOf(i) > startTime

(***************************************************************************)
(* C7: a failing HTTP call never aborts the run: fn does not throw, the    *)
(* promise of its unit is never rejected, loadTest never throws, the       *)
(* failure is recorded as exactly one outcome with success = false, and    *)
(* the units started besides it still end with their own outcome.          *)
(***************************************************************************)
C7_FailureContained ==
  /\ pc # "threw"
  /\ \A i \in DOMAIN unit :
        /\ unit[i] # "failed"
        /\ promise[i] # "rejected"
        /\ (i \in Ended /\ http[i].raised) =>
              /\ Cardinality(OutcomesOf(i)) = 1
              /\ \A p \in OutcomesOf(i) : ~results.responses[p].success
  /\ (pc = "returned" /\ ValidArgs) =>
        \A i \in 0 .. (Total - 1) :
           promise[i] = "fulfilled" /\ Cardinality(OutcomesOf(i)) = 1

C7_Witness ==
  /\ pc = "returned" /\ ValidArgs
  /\ Total = 3
  /\ http[0].raised /\ ~http[0].hasResponse
  /\ ~http[1].raised
  /\ StartOf(2) > StartOf(0)

(***************************************************************************)
(* C8: when the run ends, totalResponseSizeBytes is the sum of sizeBytes   *)
(* over the recorded outcomes, whatever the mix of returned and raised     *)
(* calls.                                                                  *)
(***************************************************************************)
C8_SizeIsSum ==
  pc = "returned" => results.totalResponseSizeBytes = SumSizes(results.responses)

C8_Witness ==
  /\ pc = "returned"
  /\ Total = 3
  /\ \E i, j, l \in DOMAIN http :
        /\ http[i].raised /\ http[i].hasResponse
        /\ http[j].raised /\ ~http[j].hasResponse
        /\ ~http[l].raised
  /\ results.totalResponseSizeBytes = 5

(***************************************************************************)
(* C9: a run started through runTest is all-or-nothing: with a URL that    *)
(* does not match, a count that is not a positive integer or a window that *)
(* is not a positive finite number, the error is raised before loadTest is *)
(* called, no GET is issued and no outcome is recorded; otherwise the run, *)
(* once returned, has exactly totalRequests outcomes.                      *)
(***************************************************************************)
C9_AllOrNothing ==
  (entry = "runTest") =>
     IF ValidArgs
     THEN /\ pc # "rejected"
          /\ loadTestCalls = 1
          /\ pc = "returned" => Len(results.responses) = Total
     ELSE /\ pc = "rejected"
          /\ errorMessage # ""
          /\ loadTestCalls = 0
          /\ gets = <<>>
          /\ results.responses = <<>>

C9_Witness ==
  /\ entry = "runTest"
  /\ pc = "rejected"
  /\ ~UrlMatches(url)
  /\ url # <<>>
  /\ IsInteger(totalRequests) /\ totalRequests.n > 0
  /\ IsFinite(timeWindowSeconds) /\ timeWindowSeconds.n > 0

(***************************************************************************)
(* C10: no retries: for valid arguments no index is ever given more than   *)
(* one GET, whether the GET returns or raises, and when the run ends every *)
(* index 0..totalRequests-1 has had exactly one.                           *)
(***************************************************************************)
C10_OneGetPerIndex ==
  ValidArgs =>
     /\ \A i \in DOMAIN gets : gets[i] <= 1 /\ (gets[i] = 1 <=> Started(i))
     /\ pc = "returned" =>
           /\ DOMAIN gets = 0 .. (Total - 1)
           /\ \A i \in DOMAIN gets : gets[i] = 1

C10_Witness ==
  /\ pc = "returned" /\ ValidArgs
  /\ Total = 2
  /\ http[0].raised
  /\ gets[0] = 1 /\ gets[1] = 1

(***************************************************************************)
(* The specification under which termination is checked: every call of     *)
(* axios.get ends (at the latest by its timeout), and the event loop runs  *)
(* every callback that is ready.                                           *)
(***************************************************************************)
FairSpec ==
  /\ Spec
  /\ \A i \in Indexes : WF_vars(\E o \in HttpOutcomes : Complete(i, o))
  /\ \A i \in Indexes : WF_vars(ThrottleDone(i))
  /\ WF_vars(LoadTestReturn)

RequestNumbers ==
  { results.responses[p].requestNumber : p \in DOMAIN results.responses }

(***************************************************************************)
(* C11: requestNumber is index + 1 by submission order and is never        *)
(* reused: no two outcomes carry the same requestNumber, each outcome      *)
(* carries the number of a unit that has ended, and after a completed run  *)
(* with valid arguments the requestNumbers are exactly 1..totalRequests,   *)
(* whatever the order of completion.                                       *)
(***************************************************************************)
C11_RequestNumbers ==
  /\ \A p, q \in DOMAIN results.responses :
        results.responses[p].requestNumber = results.responses[q].requestNumber
           => p = q
  /\ RequestNumbers = { i + 1 : i \in Ended }
  /\ (pc = "returned" /\ ValidArgs) =>
        /\ RequestNumbers = 1 .. Total
        /\ Len(results.responses) = Total

C11_Witness ==
  /\ pc = "returned" /\ ValidArgs
  /\ Total = 3
  /\ results.responses[1].requestNumber = 3
  /\ results.responses[3].requestNumber = 1

(***************************************************************************)
(* C12: every recorded outcome agrees with how its call ended: a returned  *)
(* call gives success = true, the status of the response and no error; a   *)
(* raised call gives success = false, the message as error, the status of  *)
(* the attached response or 'N/A' without one, and sizeBytes 0 without     *)
(* one.  Hence success = false exactly when error is present.              *)
(***************************************************************************)
C12_OutcomeConsistent ==
  \A p \in DOMAIN results.responses :
     LET r == results.responses[p]
         o == http[r.requestNumber - 1]
     IN  /\ (r.requestNumber - 1) \in Ended
         /\ ~o.raised =>
               /\ r.success
               /\ r.status = o.response.status
               /\ r.error = Null
         /\ o.raised =>
               /\ ~r.success
               /\ r.error = <<o.message>>
               /\ o.hasResponse => r.status = o.response.status
               /\ ~o.hasResponse => (r.status = "N/A" /\ r.sizeBytes = 0)
         /\ ~r.success <=> r.error # Null

C12_Witness ==
  /\ Len(results.responses) = 3
  /\ \E p, q, l \in DOMAIN results.responses :
        /\ results.responses[p].status = "N/A"
        /\ results.responses[q].status = "500" /\ ~results.responses[q].success
        /\ results.responses[l].status = "200" /\ results.responses[l].success

RateIsCeiling ==
  /\ Ceil(Divide(Fin(10, 1), Fin(3, 1))) = Fin(4, 1)
  /\ Ceil(Divide(Fin(5, 1), Fin(5, 1))) = Fin(1, 1)
  /\ (loadTestCalls > 0 /\ ValidArgs) =>
        /\ requestsPerSecond.k = "fin" /\ requestsPerSecond.d = 1
        /\ requestsPerSecond.n >= 1
        /\ requestsPerSecond.n * timeWindowSeconds.n
              >= Total * timeWindowSeconds.d
        /\ (requestsPerSecond.n - 1) * timeWindowSeconds.n
              < Total * timeWindowSeconds.d

(***************************************************************************)
(* C13: the rate is ceil(totalRequests / timeWindowSeconds) (10 over 3     *)
(* gives 4, 5 over 5 gives 1): for valid arguments it is the least integer *)
(* R with R * timeWindowSeconds >= totalRequests, it is at least 1, and    *)
(* once loadTest has been called no step changes it.                       *)
(***************************************************************************)
C13_RateFixed ==
  /\ []RateIsCeiling
  /\ [][loadTestCalls > 0 => requestsPerSecond' = requestsPerSecond]_vars

C13_Witness ==
  /\ pc = "returned" /\ ValidArgs
  /\ Total = 3
  /\ timeWindowSeconds = Fin(2, 1)
  /\ requestsPerSecond = Fin(2, 1)
  /\ results.failedRequests >= 1
  /\ now > startTime

(***************************************************************************)
(* C14: units begin execution in submission order: for i < j, unit j has   *)
(* never begun while unit i has not, and it begins no earlier than unit i. *)
(***************************************************************************)
C14_AdmittedInOrder ==
  \A i, j \in DOMAIN unit :
     (i < j /\ Started(j)) => (Started(i) /\ StartOf(i) <= StartOf(j))

C14_Witness ==
  /\ ValidArgs
  /\ Total = 3
  /\ requestsPerSecond = Fin(1, 1)
  /\ Started(2)
  /\ StartOf(1) = startTime
  /\ StartOf(2) > StartOf(1)

Returned_ == pc \in {"returned", "reported"}

\* h is num / den to the nearest hundredth, in hundredths
NearestHundredth(h, num, den) ==
  /\ 2 * (h * den - 100 * num) <= den
  /\ 2 * (100 * num - h * den) <= den

FailedOutcomes ==
  { p \in DOMAIN results.responses : ~results.responses[p].success }
SucceededOutcomes ==
  { p \in DOMAIN results.responses : results.responses[p].success }

(***************************************************************************)
(* C15: loadTest returns, and totalTimeTakenMs is assigned, only after     *)
(* every unit has completed and stored its outcome: once loadTest has      *)
(* returned all units are done, no later step changes the results, and     *)
(* totalTimeTakenMs covers every call from startTime to its completion.    *)
(***************************************************************************)
C15_ReturnsAfterAll ==
  /\ [](Returned_ =>
          /\ \A i \in DOMAIN unit :
                unit[i] = "released" /\ Cardinality(OutcomesOf(i)) = 1
          /\ Len(results.responses) = ArrayLength(totalRequests)
          /\ \A p \in DOMAIN results.responses :
                LET r == results.responses[p]
                    i == r.requestNumber - 1
                IN  /\ startTime <= StartOf(i)
                    /\ StartOf(i) + r.timeMs
                          <= startTime + results.totalTimeTakenMs)
  /\ [][Returned_ => results' = results]_vars
  /\ [][results'.totalTimeTakenMs # results.totalTimeTakenMs
           => (pc = "awaiting" /\ pc' = "returned")]_vars

C15_Witness ==
  /\ pc = "returned" /\ ValidArgs
  /\ Total = 3
  /\ results.totalTimeTakenMs = TickMs
  /\ results.responses[1].timeMs = 0
  /\ results.responses[3].timeMs = TickMs

(***************************************************************************)
(* C16: firstQueryStartTime is written only by the unit with index 0 and   *)
(* lastQueryStartTime only by the unit with index totalRequests - 1, each  *)
(* when that unit begins: for valid arguments they are at every moment the *)
(* start times of these two units (null before), whatever the order of     *)
(* completion; after a completed run both are set, and with                *)
(* totalRequests = 1 they are equal.                                       *)
(***************************************************************************)
C16_FirstAndLastStart ==
  /\ []((loadTestCalls > 0 /\ ValidArgs) =>
          /\ results.firstQueryStartTime = requestStartTime[0]
          /\ results.lastQueryStartTime = requestStartTime[Total - 1]
          /\ Returned_ =>
                /\ results.firstQueryStartTime # Null
                /\ results.lastQueryStartTime # Null
          /\ (Returned_ /\ Total = 1) =>
                results.firstQueryStartTime = results.lastQueryStartTime)
  /\ [][results'.firstQueryStartTime # results.firstQueryStartTime =>
           /\ 0 \in DOMAIN unit'
           /\ unit'[0] = "inflight"
           /\ (0 \in DOMAIN unit => unit[0] = "queued")]_vars
  /\ [][(ValidArgs' /\ results'.lastQueryStartTime # results.lastQueryStartTime) =>
           /\ unit'[Total' - 1] = "inflight"
           /\ ((Total' - 1) \in DOMAIN unit => unit[Total' - 1] = "queued")]_vars

C16_Witness ==
  /\ pc = "returned" /\ ValidArgs
  /\ Total = 3
  /\ results.firstQueryStartTime = <<startTime>>
  /\ results.lastQueryStartTime = <<startTime + TickMs>>
  /\ results.responses[3].requestNumber = 1

(***************************************************************************)
(* C17: the outcome collection is append-only and ordered by completion:   *)
(* every step keeps the outcomes already recorded, in their positions, and *)
(* the step in which a unit completes puts that unit's outcome at the end. *)
(***************************************************************************)
C17_AppendOnly ==
  [][/\ Len(results'.responses) >= Len(results.responses)
     /\ SubSeq(results'.responses, 1, Len(results.responses)) = results.responses
     /\ \A i \in DOMAIN unit :
           (unit[i] = "inflight" /\ unit'[i] # "inflight") =>
              /\ Len(results'.responses) = Len(results.responses) + 1
              /\ results'.responses[Len(results'.responses)].requestNumber = i + 1
    ]_vars

C17_Witness ==
  /\ Len(results.responses) = 3
  /\ results.responses[1].requestNumber = 2
  /\ results.responses[2].requestNumber = 3
  /\ results.responses[3].requestNumber = 1

(***************************************************************************)
(* C18: the summary recomputed from the returned outcomes equals the       *)
(* reported one: failedRequests and successfulRequests are the numbers of  *)
(* outcomes with success = false and true, the printed error rate is that  *)
(* of the failed outcomes among the outcomes, and the printed average is   *)
(* the mean of timeMs over exactly totalRequests outcomes (both to two     *)
(* decimals).                                                              *)
(***************************************************************************)
C18_SummaryFromOutcomes ==
  /\ (Returned_ /\ ValidArgs) =>
        /\ results.failedRequests = Cardinality(FailedOutcomes)
        /\ results.successfulRequests = Cardinality(SucceededOutcomes)
  /\ pc = "reported" =>
        /\ Len(results.responses) = Total
        /\ NearestHundredth(report[1].errorRate,
                            100 * Cardinality(FailedOutcomes),
                            Len(results.responses))
        /\ NearestHundredth(report[1].averageResponseTimeMs,
                            SumTimes(results.responses), Total)

C18_Witness ==
  /\ pc = "reported"
  /\ Total = 3
  /\ Cardinality(FailedOutcomes) = 1
  /\ report[1].errorRate = 3333
  /\ report[1].averageResponseTimeMs = 33333

(***************************************************************************)
(* C19: between callbacks the aggregate is consistent at every moment of   *)
(* the run: successfulRequests + failedRequests is the number of recorded  *)
(* outcomes, totalResponseSizeBytes is the sum of their sizeBytes, and the *)
(* number of recorded outcomes exceeds neither the number of units that    *)
(* have begun nor (for valid arguments) totalRequests.                     *)
(***************************************************************************)
C19_AggregateConsistent ==
  /\ results.successfulRequests + results.failedRequests
        = Len(results.responses)
  /\ results.totalResponseSizeBytes = SumSizes(results.responses)
  /\ Len(results.responses)
        <= Cardinality({ i \in DOMAIN unit : Started(i) })
  /\ ValidArgs => Len(results.responses) <= Total

C19_Witness ==
  /\ pc = "awaiting" /\ ValidArgs
  /\ Len(results.responses) = 1
  /\ results.totalResponseSizeBytes > 0
  /\ InFlight # {}
  /\ queue # <<>>

(***************************************************************************)
(* C20: after a completed run with valid arguments,                        *)
(* firstQueryStartTime <= lastQueryStartTime.                              *)
(***************************************************************************)
C20_FirstNotAfterLast ==
  (Returned_ /\ ValidArgs) =>
     /\ results.firstQueryStartTime # Null
     /\ results.lastQueryStartTime # Null
     /\ results.firstQueryStartTime[1] <= results.lastQueryStartTime[1]

C20_Witness ==
  /\ pc = "returned" /\ ValidArgs
  /\ Total = 2
  /\ results.firstQueryStartTime[1] < results.lastQueryStartTime[1]

=============================================================================
